---------------------------- MODULE Spec2Model ----------------------------
(***************************************************************************)
(* Lotus Mansion video downloader: the Dispatcher (VideoDownloader), the   *)
(* YouTube and Instagram backends, the Batch Runner (batchDownload) and    *)
(* the Scheduler (scheduleDownload), as state machines.                    *)
(*                                                                         *)
(* Time is counted in ticks; TicksPerDay ticks make one calendar day and   *)
(* tick 0 is 2025-01-01T00:00 (a Wednesday).  A Date is its tick count.    *)
(***************************************************************************)
EXTENDS Integers, Sequences, FiniteSets, TLC

\* ------------------------------------------------------------------ bounds

TicksPerDay ==
  2

StartDay ==
  29

MaxTime ==
  6

MaxTimerId ==
  3

MaxInflight ==
  2

MaxUrls ==
  3

Max(a, b) == IF a >= b THEN a ELSE b

Min(a, b) == IF a <= b THEN a ELSE b

\* ------------------------------------------------------- JavaScript Date

\* Days before the first day of month m (0-based) in a 365-day year.
DaysBeforeMonth ==
  <<0, 31, 59, 90, 120, 151, 181, 212, 243, 273, 304, 334, 365>>

DayOf(t) == t \div TicksPerDay

TimeOfDay(t) == t % TicksPerDay

getFullYear(t) == DayOf(t) \div 365

getMonth(t) ==
  LET doy == DayOf(t) % 365
  IN  CHOOSE m \in 0..11 :
        DaysBeforeMonth[m + 1] <= doy /\ doy < DaysBeforeMonth[m + 2]

getDate(t) ==
  (DayOf(t) % 365) - DaysBeforeMonth[getMonth(t) + 1] + 1

\* 2025-01-01 is a Wednesday (index 3).
getDay(t) == (DayOf(t) + 3) % 7

\* new Date(y, m, d) keeping the time of day; an overflowing month or day
\* rolls over into the following year or month, as Date does.
MakeDate(y, m, d, tod) ==
  ((y + (m \div 12)) * 365 + DaysBeforeMonth[(m % 12) + 1] + d - 1) * TicksPerDay + tod

setDate(t, d) == MakeDate(getFullYear(t), getMonth(t), d, TimeOfDay(t))

setMonth(t, m) == MakeDate(getFullYear(t), m, getDate(t), TimeOfDay(t))

\* ------------------------------------------------------- URL classifier

\* A URL is [scheme, www, host, path]: the parts the patterns look at.
\* path is the text after the first "/" ("" when there is none).
Schemes == {"", "http://", "https://"}

Id11Paths == {"dQw4w9WgXcQ"}

UrlYouTube ==
  [scheme |-> "https://", www |-> TRUE, host |-> "youtube.com", path |-> "watch?v=dQw4w9WgXcQ"]

UrlYouTubeBare ==
  [scheme |-> "https://", www |-> TRUE, host |-> "youtube.com", path |-> ""]

UrlInstagram ==
  [scheme |-> "https://", www |-> TRUE, host |-> "instagram.com", path |-> "p/Cabc123/"]

UrlTikTok ==
  [scheme |-> "https://", www |-> TRUE, host |-> "tiktok.com", path |-> "@user/video/123"]

UrlOther ==
  [scheme |-> "https://", www |-> FALSE, host |-> "example.com", path |-> "video.mp4"]

UrlFtp ==
  [scheme |-> "ftp://", www |-> FALSE, host |-> "youtube.com", path |-> "watch?v=dQw4w9WgXcQ"]

Urls == {UrlYouTube, UrlYouTubeBare, UrlInstagram, UrlTikTok, UrlOther, UrlFtp}

isYouTubeURL(url) ==
  /\ url.scheme \in Schemes
  /\ \/ url.host \in {"youtube.com", "youtu.be"} /\ url.path # ""
     \/ url.host = "youtube.com" /\ url.path \in {"watch?v=" \o p : p \in Id11Paths}
     \/ url.host = "youtu.be" /\ url.path \in Id11Paths
     \/ url.host = "youtube.com" /\ url.path \in {"shorts/" \o p : p \in Id11Paths}

isTikTokURL(url) ==
  /\ url.scheme \in Schemes
  /\ \/ url.host = "tiktok.com" /\ url.path # ""
     \/ url.host = "vm.tiktok.com" /\ url.path \in {"ZMabc", "ZMabc/"}
     \/ url.host = "tiktok.com" /\ url.path \in {"@user/video/123", "@user/video/123/"}

isInstagramURL(url) ==
  /\ url.scheme \in Schemes
  /\ \/ url.host = "instagram.com" /\ url.path # ""
     \/ url.host = "instagram.com" /\ url.path \in {"p/Cabc123", "p/Cabc123/"}
     \/ url.host = "instagram.com" /\ url.path \in {"reel/Cabc123", "reel/Cabc123/"}

isTwitterURL(url) ==
  /\ url.scheme \in Schemes
  /\ \/ url.host \in {"twitter.com", "x.com"} /\ url.path # ""
     \/ url.host \in {"twitter.com", "x.com"} /\ url.path \in {"user/status/1", "user/status/1/"}

isFacebookURL(url) ==
  /\ url.scheme \in Schemes
  /\ \/ url.host \in {"facebook.com", "fb.watch"} /\ url.path # ""
     \/ url.host = "facebook.com" /\ url.path \in {"page/videos/1", "page/videos/1/"}
     \/ url.host = "fb.watch" /\ url.path \in {"abc", "abc/"}

isSupportedURL(url) ==
  \/ isYouTubeURL(url)
  \/ isTikTokURL(url)
  \/ isInstagramURL(url)
  \/ isTwitterURL(url)
  \/ isFacebookURL(url)

\* ------------------------------------------------------------- backends

\* What the collaborators do during one download: the metadata fetch fails,
\* the output directory cannot be created, the media stream emits 'error',
\* or everything works and the stream emits 'end'.
Envs == {"ok", "infoFail", "mkdirFail", "streamError"}

\* The settlement of an async call: kind "returned" (the promise resolves
\* with a DownloadResult) or "rejected" (it rejects / the call throws).
\* DownloadOptions.  An optional path is << >> when absent and <<p>> when
\* given; a directory path is its sequence of segments.
Qualities == {"undefined", "HIGHEST", "LOWEST", "AUDIO_ONLY", "HD", "SD"}

Formats == {"undefined", "MP4", "MP3"}

OutputPaths == {<< >>, << << >> >>, << <<".">> >>, << <<"out">> >>}

FileNames == {<< >>, <<"">>, <<"v.mp4">>}

DownloadOptionSets ==
  [quality : Qualities, format : Formats, includeAudio : BOOLEAN, includeVideo : BOOLEAN,
   outputPath : {<< >>}, fileName : {<< >>}]
  \cup
  [quality : {"undefined"}, format : Formats, includeAudio : {TRUE}, includeVideo : {TRUE},
   outputPath : OutputPaths, fileName : FileNames]

NoDownloadOptions ==
  [quality |-> "undefined", format |-> "undefined", includeAudio |-> TRUE, includeVideo |-> TRUE,
   outputPath |-> << >>, fileName |-> << >>]

\* Video titles, as sequences of characters.
DefaultTitle == <<"t", "i", "t", "l", "e">>

Titles == {DefaultTitle, << >>, <<" ", "a", " ", " ", "/", "b">>}

InvalidChars == {"/", "\\", "?", "%", "*", ":", "|", "\"", "<", ">"}

Whitespace == {" ", "\t", "\n"}

RECURSIVE CollapseWhitespace(_)
\* .replace(/\s+/g, '_')
CollapseWhitespace(chars) ==
  IF chars = << >> THEN << >>
  ELSE IF Head(chars) \notin Whitespace THEN <<Head(chars)>> \o CollapseWhitespace(Tail(chars))
  ELSE IF Tail(chars) # << >> /\ Head(Tail(chars)) \in Whitespace
       THEN CollapseWhitespace(Tail(chars))
       ELSE <<"_">> \o CollapseWhitespace(Tail(chars))

RECURSIVE trim(_)
\* String.prototype.trim
trim(chars) ==
  IF chars = << >> THEN << >>
  ELSE IF Head(chars) \in Whitespace THEN trim(Tail(chars))
  ELSE IF chars[Len(chars)] \in Whitespace THEN trim(SubSeq(chars, 1, Len(chars) - 1))
  ELSE chars

SanitizeEachWhitespace(filename) ==
  trim([k \in 1..Len(filename) |->
         IF filename[k] \in InvalidChars THEN "-"
         ELSE IF filename[k] \in Whitespace THEN "_" ELSE filename[k]])

\* sanitizeFilename
sanitizeFilename(filename) ==
  trim(CollapseWhitespace([k \in 1..Len(filename) |->
                            IF filename[k] \in InvalidChars THEN "-" ELSE filename[k]]))

RECURSIVE Concat(_)
\* The string made of a sequence of strings.
Concat(strs) == IF strs = << >> THEN "" ELSE Head(strs) \o Concat(Tail(strs))

\* format.toLowerCase()
toLowerCase(format) ==
  IF format = "MP3" THEN "mp3" ELSE IF format = "WEBM" THEN "webm" ELSE "mp4"

generateFilename(title, format) ==
  Concat(sanitizeFilename(title)) \o "." \o toLowerCase(format)

RECURSIVE JoinSegments(_)
JoinSegments(segs) ==
  IF Len(segs) = 1 THEN Head(segs) ELSE Head(segs) \o "/" \o JoinSegments(Tail(segs))

PathJoinNoDot(dir, name) ==
  LET segs == SelectSeq(dir \o <<name>>, LAMBDA x : x \notin {"", "."})
  IN  IF segs = << >> THEN "" ELSE JoinSegments(segs)

\* path.join(outputPath, fileName): the non-empty segments joined by "/",
\* "." segments dropped, and "." when nothing is left.
pathJoin(dir, name) ==
  LET segs == SelectSeq(dir \o <<name>>, LAMBDA x : x \notin {"", "."})
  IN  IF segs = << >> THEN "." ELSE JoinSegments(segs)

Returned(success, message, filePath) ==
  [kind |-> "returned", success |-> success, message |-> message, filePath |-> filePath]

Rejected(message) ==
  [kind |-> "rejected", success |-> FALSE, message |-> message, filePath |-> ""]

\* YouTubeDownloader.download: the promise around the stream is returned
\* without await, so its reject() is not seen by the surrounding catch.
YouTubeDownloadWith(url, opts, env, title) ==
  LET format == IF opts.format = "undefined" THEN "MP4" ELSE opts.format
      outputPath == IF opts.outputPath = << >> THEN <<".", "downloads">> ELSE opts.outputPath[1]
      fileName == IF opts.fileName = << >> THEN generateFilename(title, format)
                  ELSE opts.fileName[1]
  IN  IF ~isYouTubeURL(url) THEN Returned(FALSE, "Invalid YouTube URL", "")
      ELSE IF env = "infoFail" THEN Returned(FALSE, "Download failed: Failed to get video info", "")
      ELSE IF env = "mkdirFail" THEN Returned(FALSE, "Download failed: mkdir", "")
      ELSE IF env = "streamError" THEN Rejected("Download failed: stream")
      ELSE Returned(TRUE, "Download completed successfully", pathJoin(outputPath, fileName))

\* The same with default options.
YouTubeDownload(url, env) == YouTubeDownloadWith(url, NoDownloadOptions, env, DefaultTitle)

\* InstagramDownloader.download: a placeholder that always reports failure.
InstagramDownload(url, env) ==
  IF ~isInstagramURL(url) THEN Returned(FALSE, "Invalid Instagram URL", "")
  ELSE IF env = "infoFail" THEN Returned(FALSE, "Download failed: Failed to get video info", "")
  ELSE Returned(FALSE, "Instagram downloads require additional dependencies. This is a placeholder implementation.", "")

\* TikTok, Twitter and Facebook backends: placeholders whose download obeys
\* the backend contract (a failure result, never a throw).
PlaceholderDownload(url, env) ==
  Returned(FALSE, "Download failed: not implemented", "")

\* ----------------------------------------------------------- dispatcher

DownloadersWithoutFacebook == {"youtube", "tiktok", "instagram", "twitter"}

\* The platforms the constructor registers a backend for.
downloaders == {"youtube", "tiktok", "instagram", "twitter", "facebook"}

\* this.downloaders.get(platform): undefined, here "null", when none is registered.
MapGet(platform) == IF platform \in downloaders THEN platform ELSE "null"

getDownloaderForUrl(url) ==
  IF isYouTubeURL(url) THEN MapGet("youtube")
  ELSE IF isTikTokURL(url) THEN MapGet("tiktok")
  ELSE IF isInstagramURL(url) THEN MapGet("instagram")
  ELSE IF isTwitterURL(url) THEN MapGet("twitter")
  ELSE IF isFacebookURL(url) THEN MapGet("facebook")
  ELSE "null"

isSupported(url) == isSupportedURL(url)

BackendDownload(platform, url, env) ==
  CASE platform = "youtube" -> YouTubeDownload(url, env)
    [] platform = "instagram" -> InstagramDownload(url, env)
    [] OTHER -> PlaceholderDownload(url, env)

\* VideoDownloader.download
download(url, env) ==
  LET downloader == getDownloaderForUrl(url)
  IN  IF downloader = "null"
      THEN Returned(FALSE, "Unsupported URL", "")
      ELSE BackendDownload(downloader, url, env)

\* backend.download(url, options)
BackendDownloadWith(platform, url, opts, env, title) ==
  IF platform = "youtube" THEN YouTubeDownloadWith(url, opts, env, title)
  ELSE BackendDownload(platform, url, env)

\* VideoDownloader.download(url, options)
downloadWith(url, opts, env, title) ==
  LET downloader == getDownloaderForUrl(url)
  IN  IF downloader = "null"
      THEN Returned(FALSE, "Unsupported URL", "")
      ELSE BackendDownloadWith(downloader, url, opts, env, title)


\* ---------------------------------------------------------------- state

\* One direct call of download(url, options), of a backend or of the dispatcher.
VARIABLES
  cPc,           \* "idle" | "pending" | "settled"
  cTarget,       \* what is called: the backend "youtube" | "instagram", or the "dispatcher"
  cUrl,          \* the url argument
  cOptions,      \* the DownloadOptions argument
  cStream,       \* the options handed to ytdl(url, ytdlOptions), << >> when no stream was opened
  cResult        \* how the returned promise settled

callVars == <<cPc, cTarget, cUrl, cOptions, cStream, cResult>>

\* One call of a dispatcher operation that is routed by url.
VARIABLES
  dPc,           \* "idle" | "done"
  dOp,           \* the operation called
  dUrl,          \* the url argument
  dCaps,         \* the optional methods every registered backend has
  dOutcome,      \* what the dispatcher did
  dPlatform,     \* the platform argument of setAuthentication, "none" for the other operations
  dAuth,         \* the registered backends that have a setAuthentication method
  dReceiver      \* the backend whose method was called, "none" when no backend was called

dispVars == <<dPc, dOp, dUrl, dCaps, dOutcome, dPlatform, dAuth, dReceiver>>

\* The successive nominal occurrences scheduleNextRun computes for one schedule.
VARIABLES
  kSchedule,     \* the schedule: repeat, days, dayOfMonth
  kStart,        \* schedule.date
  kPrev,         \* nextRun before the latest reschedule
  kNext,         \* nextRun
  kNow,          \* the current time at the latest reschedule
  kRuns          \* the reschedules so far

calVars == <<kSchedule, kStart, kPrev, kNext, kNow, kRuns>>

\* One call of generateFilename(title, format).
VARIABLES
  nPc,           \* "idle" | "done"
  nTitle,        \* the title argument, a sequence of characters
  nFormat,       \* the format argument
  nSanitized,    \* sanitizeFilename(title), a sequence of characters
  nFilename      \* the string returned

nameVars == <<nPc, nTitle, nFormat, nSanitized, nFilename>>

\* One call of batchDownload(urls, options).
VARIABLES
  bPc,           \* "idle" | "running" (awaiting Promise.all) | "done" | "rejected"
  bUrls,         \* the urls argument
  concurrency,   \* options.concurrency
  onProgress,    \* options.onProgress: "none" | "ok" | "throws"
  supportedUrls, \* urls.filter(isSupported)
  bI,            \* the loop variable i
  batch,         \* the current chunk
  pending,       \* positions of the chunk whose callback has not settled
  batchResults,  \* the chunk's settled callbacks, by position
  results,       \* the results array
  completed,     \* the completed counter
  snapshots,     \* the BatchProgress values passed to onProgress, in order
  thrown,        \* history: the items (positions in supportedUrls) whose download threw
  chunks,        \* history: the length of every chunk sliced so far, in order
  events         \* history: the start and the end of every download, in order

batchVars ==
  <<bPc, bUrls, concurrency, onProgress, supportedUrls, bI, batch, pending,
    batchResults, results, completed, snapshots, thrown, chunks, events>>

\* ------------------------------------------------------------ scheduler

VARIABLES
  now,           \* the clock (Date.now()), in ticks
  sState,        \* "none" | "active" (a control handle was returned) | "rejected" (scheduleDownload threw)
  options,       \* the ScheduledDownloadOptions given to scheduleDownload
  isPaused,      \* closure variable isPaused
  nextRun,       \* closure variable nextRun
  timeoutId,     \* closure variable timeoutId: the handle of the last timer armed
  timers,        \* the pending timers of the event loop: [id, due]
  timerSeq,      \* the next timer handle setTimeout hands out
  inflight,      \* executions of executeDownload awaiting this.download
  cancelled,     \* history: cancel() has been called
  cancelledInFlight, \* history: cancel() was called while a run was awaiting its download
  lastOp,        \* what the last step was
  lastOutcome,   \* "ok" | "fail" | "throw" of the download the last step settled, else "none"
  lastCallback,  \* the callback the last step invoked, else "none"
  lastStarted,   \* the last step invoked this.download
  lastPaused,    \* isPaused as it was before the last step
  lastArmed,     \* the delays the last step passed to setTimeout (a sequence of at most one)
  lastRunFor     \* history: <<nextRun>> as it was when this.download was last invoked, << >> before

schedVars ==
  <<now, sState, options, isPaused, nextRun, timeoutId, timers, timerSeq, inflight,
    cancelled, cancelledInFlight, lastOp, lastOutcome, lastCallback, lastStarted, lastPaused,
    lastArmed, lastRunFor>>

\* The moment scheduleDownload is called: StartDay, one tick into the day.
StartTick == StartDay * TicksPerDay + 1

daysOfWeek ==
  <<"sunday", "monday", "tuesday", "wednesday", "thursday", "friday", "saturday">>

\* Array.prototype.indexOf on daysOfWeek: -1 when the name is no weekday.
indexOf(day) ==
  IF \E i \in 1..Len(daysOfWeek) : daysOfWeek[i] = day
  THEN (CHOOSE i \in 1..Len(daysOfWeek) : daysOfWeek[i] = day) - 1
  ELSE -1

Repeats == {"undefined", "once", "daily", "weekly", "monthly"}

Dates == {StartTick - 1, StartTick, StartTick + TicksPerDay}

EndDates == {<< >>, <<StartTick + 2 * TicksPerDay>>}

WeekDaySets == {<< >>, <<"monday", "saturday">>, <<"funday">>}

DaysOfMonth == {0, 31}

ScheduleUrls == {UrlYouTube}

\* The schedules scheduleDownload is called with.  days is read for weekly
\* and dayOfMonth for monthly schedules only, so they vary only there.
ScheduleOptions ==
  { o \in [url : ScheduleUrls, date : Dates, repeat : Repeats, days : WeekDaySets,
           dayOfMonth : DaysOfMonth, endDate : EndDates, callbacks : BOOLEAN] :
      /\ o.repeat # "weekly" => o.days = << >>
      /\ o.repeat # "monthly" => o.dayOfMonth = 0 }

NoOptions ==
  [url |-> UrlOther, date |-> 0, repeat |-> "undefined", days |-> << >>,
   dayOfMonth |-> 0, endDate |-> << >>, callbacks |-> FALSE]

\* scheduleDownload: the guard that throws 'Scheduled date is in the past'.
CreateAcceptsPastOnce(schedule, t) == FALSE

CreateRejects(schedule, t) ==
  (schedule.date - t < 0) /\ schedule.repeat = "once"

\* setTimeout(executeDownload, Math.max(0, initialDelay))
InitialDelayZero(schedule, t) == 0

InitialDelay(schedule, t) == Max(0, schedule.date - t)

\* executeDownload: if (isPaused) return;
ExecuteIgnoresPause(paused) == TRUE

ExecuteRuns(paused) == ~paused

\* executeDownload: schedule.repeat && schedule.repeat !== 'once'
Repeating(schedule) == schedule.repeat \notin {"undefined", "once"}

RECURSIVE WeeklyScanNoWrap(_, _, _)
WeeklyScanNoWrap(currentDayIndex, scheduledDayIndices, daysToAdd) ==
  IF (currentDayIndex + daysToAdd) \in scheduledDayIndices
  THEN daysToAdd
  ELSE IF daysToAdd + 1 > 7
       THEN daysToAdd + 1
       ELSE WeeklyScanNoWrap(currentDayIndex, scheduledDayIndices, daysToAdd + 1)

\* scheduleNextRun: the forward scan over the weekdays.
RECURSIVE WeeklyScan(_, _, _)
WeeklyScan(currentDayIndex, scheduledDayIndices, daysToAdd) ==
  IF ((currentDayIndex + daysToAdd) % 7) \in scheduledDayIndices
  THEN daysToAdd
  ELSE IF daysToAdd + 1 > 7
       THEN daysToAdd + 1
       ELSE WeeklyScan(currentDayIndex, scheduledDayIndices, daysToAdd + 1)

NextDateDailyFromNow(schedule, nr, t) ==
  CASE schedule.repeat = "daily" -> setDate(t, getDate(t) + 1)
    [] schedule.repeat = "weekly" ->
         IF Len(schedule.days) > 0
         THEN LET scheduledDayIndices == {indexOf(schedule.days[i]) : i \in 1..Len(schedule.days)}
                  daysToAdd == WeeklyScan(getDay(t), scheduledDayIndices, 1)
              IN  setDate(nr, getDate(nr) + daysToAdd)
         ELSE setDate(nr, getDate(nr) + 7)
    [] schedule.repeat = "monthly" ->
         IF schedule.dayOfMonth # 0 /\ schedule.dayOfMonth >= 1 /\ schedule.dayOfMonth <= 31
         THEN setDate(setMonth(nr, getMonth(nr) + 1), schedule.dayOfMonth)
         ELSE setMonth(nr, getMonth(nr) + 1)

\* scheduleNextRun: nextDate for a daily, weekly or monthly schedule.
NextDate(schedule, nr, t) ==
  CASE schedule.repeat = "daily" -> setDate(nr, getDate(nr) + 1)
    [] schedule.repeat = "weekly" ->
         IF Len(schedule.days) > 0
         THEN LET scheduledDayIndices == {indexOf(schedule.days[i]) : i \in 1..Len(schedule.days)}
                  daysToAdd == WeeklyScan(getDay(t), scheduledDayIndices, 1)
              IN  setDate(nr, getDate(nr) + daysToAdd)
         ELSE setDate(nr, getDate(nr) + 7)
    [] schedule.repeat = "monthly" ->
         IF schedule.dayOfMonth # 0 /\ schedule.dayOfMonth >= 1 /\ schedule.dayOfMonth <= 31
         THEN setDate(setMonth(nr, getMonth(nr) + 1), schedule.dayOfMonth)
         ELSE setMonth(nr, getMonth(nr) + 1)

NoRunRearms(nr) == [armed |-> TRUE, nextRun |-> nr, delay |-> 0]

NoRun(nr) == [armed |-> FALSE, nextRun |-> nr, delay |-> 0]

\* scheduleNextRun: what it does to nextRun and which timer it arms.
ScheduleNextRunFromNow(schedule, paused, nr, t) ==
  IF paused \/ schedule.repeat \notin {"daily", "weekly", "monthly"} THEN NoRun(nr)
  ELSE LET nextDate == NextDate(schedule, nr, t)
       IN  IF schedule.endDate # << >> /\ nextDate > schedule.endDate[1]
           THEN NoRun(nr)
           ELSE [armed |-> TRUE, nextRun |-> nextDate, delay |-> nextDate - nr]

ScheduleNextRunIgnoresEndDate(schedule, paused, nr, t) ==
  IF paused \/ schedule.repeat \notin {"daily", "weekly", "monthly"} THEN NoRun(nr)
  ELSE [armed |-> TRUE, nextRun |-> NextDate(schedule, nr, t),
        delay |-> NextDate(schedule, nr, t) - t]

scheduleNextRun(schedule, paused, nr, t) ==
  IF paused THEN NoRun(nr)
  ELSE IF schedule.repeat \notin {"daily", "weekly", "monthly"} THEN NoRun(nr)
  ELSE LET nextDate == NextDate(schedule, nr, t)
       IN  IF schedule.endDate # << >> /\ nextDate > schedule.endDate[1]
           THEN NoRun(nr)
           ELSE [armed |-> TRUE, nextRun |-> nextDate, delay |-> nextDate - t]

\* What executeDownload does once its download has settled: the callback it
\* invokes and whether it goes on to scheduleNextRun.
AfterDownloadStopsOnThrow(schedule, result) ==
  IF result.kind = "returned"
  THEN [callback |-> IF schedule.callbacks THEN "onComplete" ELSE "none",
        reschedule |-> Repeating(schedule)]
  ELSE [callback |-> IF schedule.callbacks THEN "onError" ELSE "none",
        reschedule |-> FALSE]

AfterDownload(schedule, result) ==
  IF result.kind = "returned"
  THEN [callback |-> IF schedule.callbacks THEN "onComplete" ELSE "none",
        reschedule |-> Repeating(schedule)]
  ELSE [callback |-> IF schedule.callbacks THEN "onError" ELSE "none",
        reschedule |-> Repeating(schedule)]

\* resume: if (nextRun < now) executeDownload() else setTimeout(.., nextRun - now)
ResumeNeverRunsNow(nr, t) == FALSE

ResumeRunsNow(nr, t) == nr < t

ResumeDelayFull(nr, t) == nr

ResumeDelay(nr, t) == nr - t

OutcomeOf(result) ==
  IF result.kind = "rejected" THEN "throw"
  ELSE IF result.success THEN "ok" ELSE "fail"

\* setTimeout: a delay below 1 ms fires as soon as the event loop is free.
Arm(delay) ==
  /\ timerSeq <= MaxTimerId
  /\ timers' = timers \cup {[id |-> timerSeq, due |-> now + Max(0, delay)]}
  /\ timeoutId' = timerSeq
  /\ timerSeq' = timerSeq + 1
  /\ lastArmed' = <<delay>>

NoArm ==
  /\ UNCHANGED <<timeoutId, timerSeq>>
  /\ lastArmed' = << >>

SchedInit ==
  /\ now = StartTick
  /\ sState = "none"
  /\ options = NoOptions
  /\ isPaused = FALSE
  /\ nextRun = 0
  /\ timeoutId = 0
  /\ timers = {}
  /\ timerSeq = 1
  /\ inflight = 0
  /\ cancelled = FALSE
  /\ cancelledInFlight = FALSE
  /\ lastOp = "none"
  /\ lastOutcome = "none"
  /\ lastCallback = "none"
  /\ lastStarted = FALSE
  /\ lastPaused = FALSE
  /\ lastArmed = << >>
  /\ lastRunFor = << >>

\* scheduleDownload(options)
ScheduleDownload ==
  /\ sState = "none"
  /\ \E o \in ScheduleOptions :
       /\ options' = o
       /\ IF CreateRejects(o, now)
          THEN /\ sState' = "rejected"
               /\ NoArm
               /\ UNCHANGED <<nextRun, timers>>
          ELSE /\ sState' = "active"
               /\ nextRun' = o.date
               /\ Arm(InitialDelay(o, now))
  /\ lastOp' = "create"
  /\ lastOutcome' = "none"
  /\ lastCallback' = "none"
  /\ lastStarted' = FALSE
  /\ UNCHANGED <<now, isPaused, inflight, cancelled, cancelledInFlight>>
  /\ UNCHANGED lastRunFor
  /\ lastPaused' = isPaused
  /\ UNCHANGED <<callVars, batchVars, dispVars, calVars, nameVars>>

\* A pending timer elapses and the event loop calls executeDownload, which
\* runs up to its await.
TimerFires ==
  /\ sState = "active"
  /\ \E t \in timers :
       /\ t.due <= now
       /\ timers' = timers \ {t}
  /\ IF ExecuteRuns(isPaused)
     THEN /\ inflight < MaxInflight
          /\ inflight' = inflight + 1
          /\ lastStarted' = TRUE
          /\ lastRunFor' = <<nextRun>>
     ELSE /\ lastStarted' = FALSE
          /\ UNCHANGED <<inflight, lastRunFor>>
  /\ lastOp' = "fire"
  /\ lastOutcome' = "none"
  /\ lastCallback' = "none"
  /\ lastArmed' = << >>
  /\ UNCHANGED <<now, sState, options, isPaused, nextRun, timeoutId, timerSeq,
                 cancelled, cancelledInFlight>>
  /\ lastPaused' = isPaused
  /\ UNCHANGED <<callVars, batchVars, dispVars, calVars, nameVars>>

\* The awaited download settles and executeDownload runs to its end.
DownloadSettles ==
  /\ sState = "active"
  /\ inflight > 0
  /\ \E env \in Envs :
       LET result == download(options.url, env)
           after == AfterDownload(options, result)
           next == IF after.reschedule
                   THEN scheduleNextRun(options, isPaused, nextRun, now)
                   ELSE NoRun(nextRun)
       IN  /\ lastOutcome' = OutcomeOf(result)
           /\ lastCallback' = after.callback
           /\ nextRun' = next.nextRun
           /\ IF next.armed
              THEN Arm(next.delay)
              ELSE NoArm /\ UNCHANGED timers
  /\ inflight' = inflight - 1
  /\ cancelledInFlight' = (cancelledInFlight /\ inflight > 1)
  /\ lastOp' = "settle"
  /\ lastStarted' = FALSE
  /\ UNCHANGED <<now, sState, options, isPaused, cancelled>>
  /\ UNCHANGED lastRunFor
  /\ lastPaused' = isPaused
  /\ UNCHANGED <<callVars, batchVars, dispVars, calVars, nameVars>>

\* control.cancel(): clearTimeout(timeoutId)
Cancel ==
  /\ sState = "active"
  /\ timers' = {t \in timers : t.id # timeoutId}
  /\ cancelled' = TRUE
  /\ cancelledInFlight' = (cancelledInFlight \/ inflight > 0)
  /\ lastOp' = "cancel"
  /\ lastOutcome' = "none"
  /\ lastCallback' = "none"
  /\ lastStarted' = FALSE
  /\ lastArmed' = << >>
  /\ UNCHANGED <<now, sState, options, isPaused, nextRun, timeoutId, timerSeq, inflight>>
  /\ UNCHANGED lastRunFor
  /\ lastPaused' = isPaused
  /\ UNCHANGED <<callVars, batchVars, dispVars, calVars, nameVars>>

\* control.pause()
Pause ==
  /\ sState = "active"
  /\ isPaused' = TRUE
  /\ lastOp' = "pause"
  /\ lastOutcome' = "none"
  /\ lastCallback' = "none"
  /\ lastStarted' = FALSE
  /\ lastArmed' = << >>
  /\ UNCHANGED <<now, sState, options, nextRun, timeoutId, timers, timerSeq, inflight,
                 cancelled, cancelledInFlight>>
  /\ UNCHANGED lastRunFor
  /\ lastPaused' = isPaused
  /\ UNCHANGED <<callVars, batchVars, dispVars, calVars, nameVars>>

\* control.resume()
Resume ==
  /\ sState = "active"
  /\ isPaused' = FALSE
  /\ IF ResumeRunsNow(nextRun, now)
     THEN /\ inflight < MaxInflight
          /\ inflight' = inflight + 1
          /\ lastStarted' = TRUE
          /\ lastRunFor' = <<nextRun>>
          /\ NoArm
          /\ UNCHANGED timers
     ELSE /\ Arm(ResumeDelay(nextRun, now))
          /\ lastStarted' = FALSE
          /\ UNCHANGED <<inflight, lastRunFor>>
  /\ lastOp' = "resume"
  /\ lastOutcome' = "none"
  /\ lastCallback' = "none"
  /\ UNCHANGED <<now, sState, options, nextRun, cancelled, cancelledInFlight>>
  /\ lastPaused' = isPaused
  /\ UNCHANGED <<callVars, batchVars, dispVars, calVars, nameVars>>

\* Time passes.  A timer that is due fires before the clock moves on.
Tick ==
  /\ sState = "active"
  /\ now < StartTick + MaxTime
  /\ \A t \in timers : t.due > now
  /\ now' = now + 1
  /\ lastOp' = "tick"
  /\ lastOutcome' = "none"
  /\ lastCallback' = "none"
  /\ lastStarted' = FALSE
  /\ lastArmed' = << >>
  /\ UNCHANGED <<sState, options, isPaused, nextRun, timeoutId, timers, timerSeq, inflight,
                 cancelled, cancelledInFlight>>
  /\ UNCHANGED lastRunFor
  /\ lastPaused' = isPaused
  /\ UNCHANGED <<callVars, batchVars, dispVars, calVars, nameVars>>

SchedNext ==
  \/ ScheduleDownload
  \/ TimerFires
  \/ DownloadSettles
  \/ Cancel
  \/ Pause
  \/ Resume
  \/ Tick


\* ------------------------------------------- a direct backend download call

\* YouTubeDownloader.mapQuality
mapQuality(quality) ==
  CASE quality = "HIGHEST" -> "highestvideo"
    [] quality = "LOWEST" -> "lowestvideo"
    [] quality = "AUDIO_ONLY" -> "highestaudio"
    [] quality = "HD" -> "highestvideo"
    [] quality = "SD" -> "480p"
    [] OTHER -> "highest"

\* YouTubeDownloader.download: the ytdl options built from the DownloadOptions
\* (quality defaults to HIGHEST and format to MP4).
YtdlOptions(opts) ==
  LET quality == IF opts.quality = "undefined" THEN "HIGHEST" ELSE opts.quality
      format == IF opts.format = "undefined" THEN "MP4" ELSE opts.format
  IN  [quality |-> mapQuality(quality),
       filter |-> IF format = "MP3" \/ quality = "AUDIO_ONLY" THEN "audioonly"
                  ELSE IF ~opts.includeAudio THEN "videoonly"
                  ELSE IF ~opts.includeVideo THEN "audioonly"
                  ELSE "undefined"]

\* Whether the call gets as far as opening the media stream.
OpensStream(target, url, env) ==
  target \in {"youtube", "dispatcher"} /\ isYouTubeURL(url) /\ env \notin {"infoFail", "mkdirFail"}

CallInit ==
  /\ cPc = "idle"
  /\ cTarget = "youtube"
  /\ cUrl = UrlOther
  /\ cOptions = NoDownloadOptions
  /\ cStream = << >>
  /\ cResult = Returned(FALSE, "", "")

\* backend.download(url, options) is called.
CallDownload ==
  /\ cPc = "idle"
  /\ cPc' = "pending"
  /\ cTarget' \in {"youtube", "instagram", "dispatcher"}
  /\ cUrl' \in Urls
  /\ cOptions' \in DownloadOptionSets
  /\ UNCHANGED <<cStream, cResult>>
  /\ UNCHANGED <<schedVars, batchVars, dispVars, calVars, nameVars>>

\* The promise it returned settles.
CallSettles ==
  /\ cPc = "pending"
  /\ \E env \in Envs, title \in Titles :
       /\ cResult' = IF cTarget = "dispatcher"
                     THEN downloadWith(cUrl, cOptions, env, title)
                     ELSE BackendDownloadWith(cTarget, cUrl, cOptions, env, title)
       /\ cStream' = IF OpensStream(cTarget, cUrl, env) THEN <<YtdlOptions(cOptions)>> ELSE << >>
  /\ cPc' = "settled"
  /\ UNCHANGED <<cTarget, cUrl, cOptions>>
  /\ UNCHANGED <<schedVars, batchVars, dispVars, calVars, nameVars>>

CallNext ==
  \/ CallDownload
  \/ CallSettles

\* ---------------------------------------------------------- batch runner

MaxLoop ==
  3

\* Longest url list given to batchDownload.
MaxLongUrls ==
  7

\* Most passes of the for loop followed.
MaxChunks ==
  8

BatchUrls == {UrlYouTube, UrlInstagram, UrlOther}

Concurrencies == {-1, 0, 1, 2, 3}

ProgressCallbacks == {"none", "ok", "throws"}

SelectAll(urls) == urls

RECURSIVE SelectSupported(_)
\* urls.filter(url => this.isSupported(url))
SelectSupported(urls) ==
  IF urls = << >> THEN << >>
  ELSE IF isSupported(Head(urls))
       THEN <<Head(urls)>> \o SelectSupported(Tail(urls))
       ELSE SelectSupported(Tail(urls))

\* Array.prototype.slice: a negative index counts from the end.
SliceIndex(len, k) == IF k < 0 THEN Max(len + k, 0) ELSE Min(k, len)

SliceInclusiveEnd(arr, start, end) ==
  SubSeq(arr, SliceIndex(Len(arr), start) + 1, Min(SliceIndex(Len(arr), end) + 1, Len(arr)))

SliceIgnoresEnd(arr, start, end) ==
  SubSeq(arr, SliceIndex(Len(arr), start) + 1, Len(arr))

slice(arr, start, end) ==
  SubSeq(arr, SliceIndex(Len(arr), start) + 1, SliceIndex(Len(arr), end))

PercentageFloor(c, total) == (100 * c) \div total

\* Math.round((completed / total) * 100)
Percentage(c, total) == (200 * c + total) \div (2 * total)

SnapshotStale(c, total, withCurrent) ==
  [percentage |-> Percentage(c - 1, total), completed |-> c - 1, total |-> total,
   current |-> withCurrent]

Snapshot(c, total, withCurrent) ==
  [percentage |-> Percentage(c, total), completed |-> c, total |-> total,
   current |-> withCurrent]

Entry(success, message, filePath, item) ==
  [success |-> success, message |-> message, filePath |-> filePath, item |-> item]

\* The async callback of batch.map for one url, from the settlement of its
\* download on: the entry it resolves with (or its rejection), the new value
\* of completed and the snapshots it passes to onProgress.
BatchCallbackNoCatch(url, item, env, cb, c, total) ==
  LET r == download(url, env)
      snap == IF cb = "none" THEN << >> ELSE <<Snapshot(c + 1, total, TRUE)>>
  IN  IF r.kind = "returned" /\ cb # "throws"
      THEN [settled |-> "fulfilled", entry |-> Entry(r.success, r.message, r.filePath, item),
            completed |-> c + 1, snaps |-> snap]
      ELSE [settled |-> "rejected", entry |-> Entry(FALSE, r.message, "", item),
            completed |-> c + 1, snaps |-> snap]

\* The entry the catch block of the callback returns for a thrown error.
CatchEntry(error, item) == Entry(FALSE, "Download failed: " \o error.message, "", item)

BatchCallback(url, item, env, cb, c, total) ==
  LET r == download(url, env)
      failed == CatchEntry(r, item)
  IN  IF r.kind = "returned"
      THEN CASE cb = "none" ->
                  [settled |-> "fulfilled", entry |-> Entry(r.success, r.message, r.filePath, item),
                   completed |-> c + 1, snaps |-> << >>]
             [] cb = "ok" ->
                  [settled |-> "fulfilled", entry |-> Entry(r.success, r.message, r.filePath, item),
                   completed |-> c + 1, snaps |-> <<Snapshot(c + 1, total, TRUE)>>]
             [] OTHER ->
                  \* onProgress throws in the try block and again in the catch block
                  [settled |-> "rejected", entry |-> failed, completed |-> c + 2,
                   snaps |-> <<Snapshot(c + 1, total, TRUE), Snapshot(c + 2, total, FALSE)>>]
      ELSE CASE cb = "none" ->
                  [settled |-> "fulfilled", entry |-> failed, completed |-> c + 1, snaps |-> << >>]
             [] cb = "ok" ->
                  [settled |-> "fulfilled", entry |-> failed, completed |-> c + 1,
                   snaps |-> <<Snapshot(c + 1, total, FALSE)>>]
             [] OTHER ->
                  [settled |-> "rejected", entry |-> failed, completed |-> c + 1,
                   snaps |-> <<Snapshot(c + 1, total, FALSE)>>]

RECURSIVE InputsUpTo(_)
\* All url sequences of length at most n.
InputsUpTo(n) ==
  IF n = 0 THEN {<< >>}
  ELSE LET shorter == InputsUpTo(n - 1)
       IN  shorter \cup {Append(u, x) : u \in shorter, x \in BatchUrls}

\* Longer lists, of one url whose download has a single outcome.
LongInputs == {[k \in 1..n |-> UrlTikTok] : n \in (MaxUrls + 1)..MaxLongUrls}

BatchInit ==
  /\ bPc = "idle"
  /\ bUrls = << >>
  /\ concurrency = 3
  /\ onProgress = "none"
  /\ supportedUrls = << >>
  /\ bI = 0
  /\ batch = << >>
  /\ pending = {}
  /\ batchResults = << >>
  /\ results = << >>
  /\ completed = 0
  /\ snapshots = << >>
  /\ thrown = {}
  /\ chunks = << >>
  /\ events = << >>

ChunkEntriesByCompletion(b, br) ==
  LET base == SliceIndex(Len(supportedUrls), bI)
      ends == SelectSeq(events, LAMBDA e : e.type = "end" /\ e.item > base)
  IN  [k \in 1..Len(b) |-> br[ends[k].item - base]]

\* What Promise.all resolves with: the chunk's entries by position.
ChunkEntries(b, br) == [k \in 1..Len(b) |-> br[k]]

\* The downloads the chunk starts, in map order.
Starts(chunk, first) ==
  [j \in 1..Len(chunk) |-> [type |-> "start", item |-> first + j, url |-> chunk[j]]]

\* One pass of the for loop from its test on: either the loop ends and
\* batchDownload returns, or the chunk at i is sliced and all its downloads
\* start, and batchDownload awaits Promise.all.
LoopFrom(i, supported, c, res) ==
  IF i < Len(supported)
  THEN /\ bPc' = "running"
       /\ bI' = i
       /\ batch' = slice(supported, i, i + c)
       /\ pending' = 1..Len(slice(supported, i, i + c))
       /\ batchResults' = << >>
       /\ results' = res
       /\ chunks' = Append(chunks, Len(slice(supported, i, i + c)))
       /\ events' = events \o Starts(slice(supported, i, i + c), SliceIndex(Len(supported), i))
  ELSE /\ bPc' = "done"
       /\ bI' = i
       /\ batch' = << >>
       /\ pending' = {}
       /\ batchResults' = << >>
       /\ results' = res
       /\ UNCHANGED <<chunks, events>>

\* batchDownload(urls, options) is called and runs up to its first await.
BatchDownload ==
  /\ bPc = "idle"
  /\ \E urls \in InputsUpTo(MaxUrls) \cup LongInputs, c \in Concurrencies,
        cb \in ProgressCallbacks :
       /\ bUrls' = urls
       /\ concurrency' = c
       /\ onProgress' = cb
       /\ supportedUrls' = SelectSupported(urls)
       /\ IF Len(SelectSupported(urls)) = 0
          THEN /\ bPc' = "done"
               /\ UNCHANGED <<bI, batch, pending, batchResults, results, chunks, events>>
          ELSE LoopFrom(0, SelectSupported(urls), c, << >>)
  /\ UNCHANGED <<completed, snapshots, thrown>>
  /\ UNCHANGED <<schedVars, callVars, dispVars, calVars, nameVars>>

\* The download of one url of the chunk settles and its callback runs to its
\* end.  The first callback to reject rejects Promise.all and batchDownload;
\* the chunk's other downloads go on.
ItemSettles ==
  /\ bPc \in {"running", "rejected"}
  /\ \E j \in pending, env \in Envs :
       LET item == SliceIndex(Len(supportedUrls), bI) + j
           out == BatchCallback(batch[j], item, env, onProgress, completed, Len(supportedUrls))
       IN  /\ pending' = pending \ {j}
           /\ completed' = out.completed
           /\ snapshots' = snapshots \o out.snaps
           /\ thrown' = IF download(batch[j], env).kind = "rejected" THEN thrown \cup {item} ELSE thrown
           /\ events' = Append(events, [type |-> "end", item |-> item, url |-> batch[j],
                                        entry |-> out.entry])
           /\ IF out.settled = "fulfilled"
              THEN /\ batchResults' = (j :> out.entry) @@ batchResults
                   /\ UNCHANGED bPc
              ELSE /\ bPc' = "rejected"
                   /\ UNCHANGED batchResults
  /\ UNCHANGED <<bUrls, concurrency, onProgress, supportedUrls, bI, batch, results, chunks>>
  /\ UNCHANGED <<schedVars, callVars, dispVars, calVars, nameVars>>

ChunkResolvesEarly ==
  /\ bPc = "running"
  /\ pending # 1..Len(batch) \/ batch = << >>
  /\ bI + concurrency > -MaxLoop
  /\ Len(chunks) < MaxChunks
  /\ LET idx == SelectSeq([k \in 1..Len(batch) |-> k], LAMBDA k : k \in DOMAIN batchResults)
     IN  LoopFrom(bI + concurrency, supportedUrls, concurrency,
                  results \o [n \in 1..Len(idx) |-> batchResults[idx[n]]])
  /\ UNCHANGED <<bUrls, concurrency, onProgress, supportedUrls, completed, snapshots, thrown>>
  /\ UNCHANGED <<schedVars, callVars, dispVars, calVars, nameVars>>

\* Promise.all resolves: the chunk's results are appended and the loop goes on.
ChunkResolves ==
  /\ bPc = "running"
  /\ pending = {}
  /\ bI + concurrency > -MaxLoop
  /\ Len(chunks) < MaxChunks
  /\ LoopFrom(bI + concurrency, supportedUrls, concurrency,
              results \o ChunkEntries(batch, batchResults))
  /\ UNCHANGED <<bUrls, concurrency, onProgress, supportedUrls, completed, snapshots, thrown>>
  /\ UNCHANGED <<schedVars, callVars, dispVars, calVars, nameVars>>

BatchNext ==
  \/ BatchDownload
  \/ ItemSettles
  \/ ChunkResolves

\* ------------------------------------------------ dispatcher operations

UrlTwitter ==
  [scheme |-> "https://", www |-> FALSE, host |-> "x.com", path |-> "user/status/1"]

UrlFacebook ==
  [scheme |-> "", www |-> FALSE, host |-> "fb.watch", path |-> "abc/"]

UrlVmTikTok ==
  [scheme |-> "http://", www |-> FALSE, host |-> "vm.tiktok.com", path |-> "ZMabc"]

DispatchUrls == Urls \cup {UrlTwitter, UrlFacebook, UrlVmTikTok}

\* The optional methods of the Downloader interface.
OptionalMethods ==
  {"getPlaylistInfo", "downloadPlaylist", "getChannelInfo", "downloadChannel", "recordLiveStream"}

\* YouTubeDownloader and InstagramDownloader define none of them; the other
\* backends may define none or all.
CapabilitySets ==
  {c \in [downloaders -> {{}, OptionalMethods}] : c["youtube"] = {} /\ c["instagram"] = {}}

NoCapabilities == [p \in downloaders |-> {}]

\* What the dispatcher does with a call: it throws, it returns a failure
\* result of its own, or it calls the backend's method.
Thrown(message) == [kind |-> "thrown", message |-> message, called |-> "none"]

Failure(message) == [kind |-> "returned", message |-> message, called |-> "none"]

Delegated(method) == [kind |-> "delegated", message |-> "", called |-> method]

\* VideoDownloader.getInfo
getInfo(url) ==
  IF getDownloaderForUrl(url) = "null" THEN Thrown("Unsupported URL") ELSE Delegated("getInfo")

\* VideoDownloader.download, up to the call of the backend
downloadRouted(url) ==
  IF getDownloaderForUrl(url) = "null" THEN Failure("Unsupported URL") ELSE Delegated("download")

\* VideoDownloader.getPlaylistInfo
getPlaylistInfo(url, caps) ==
  LET downloader == getDownloaderForUrl(url)
  IN  IF downloader = "null" \/ "getPlaylistInfo" \notin caps[downloader]
      THEN Thrown("Playlist not supported for this URL")
      ELSE Delegated("getPlaylistInfo")

DownloadPlaylistUnchecked(url, caps) ==
  LET downloader == getDownloaderForUrl(url)
  IN  IF downloader = "null"
      THEN Failure("Playlist download not supported for this URL")
      ELSE IF "downloadPlaylist" \notin caps[downloader]
           THEN [kind |-> "thrown", message |-> "downloader.downloadPlaylist is not a function",
                 called |-> "downloadPlaylist"]
           ELSE Delegated("downloadPlaylist")

\* VideoDownloader.downloadPlaylist
downloadPlaylist(url, caps) ==
  LET downloader == getDownloaderForUrl(url)
  IN  IF downloader = "null" \/ "downloadPlaylist" \notin caps[downloader]
      THEN Failure("Playlist download not supported for this URL")
      ELSE Delegated("downloadPlaylist")

\* VideoDownloader.getChannelInfo
getChannelInfo(url, caps) ==
  LET downloader == getDownloaderForUrl(url)
  IN  IF downloader = "null" \/ "getChannelInfo" \notin caps[downloader]
      THEN Thrown("Channel not supported for this URL")
      ELSE Delegated("getChannelInfo")

\* VideoDownloader.downloadChannel
downloadChannel(url, caps) ==
  LET downloader == getDownloaderForUrl(url)
  IN  IF downloader = "null" \/ "downloadChannel" \notin caps[downloader]
      THEN Failure("Channel download not supported for this URL")
      ELSE Delegated("downloadChannel")

\* VideoDownloader.recordLiveStream
recordLiveStream(url, caps) ==
  LET downloader == getDownloaderForUrl(url)
  IN  IF downloader = "null" \/ "recordLiveStream" \notin caps[downloader]
      THEN Thrown("Live stream recording not supported for this URL")
      ELSE Delegated("recordLiveStream")

\* The values of the platform argument: the Platform tags, and undefined
\* (what the command line passes for a name that is no Platform key).
Platforms == downloaders \cup {"undefined"}

\* YouTubeDownloader and InstagramDownloader define no setAuthentication; each
\* of the other backends may.
AuthCapabilitySets == SUBSET (downloaders \ {"youtube", "instagram"})

SetAuthenticationUnchecked(platform, auth) ==
  LET downloader == MapGet(platform)
  IN  IF downloader = "null"
      THEN Thrown("Authentication not supported for " \o platform)
      ELSE IF downloader \notin auth
           THEN [kind |-> "thrown", message |-> "downloader.setAuthentication is not a function",
                 called |-> "setAuthentication"]
           ELSE Delegated("setAuthentication")

\* VideoDownloader.setAuthentication
setAuthentication(platform, auth) ==
  LET downloader == MapGet(platform)
  IN  IF downloader = "null" \/ downloader \notin auth
      THEN Thrown("Authentication not supported for " \o platform)
      ELSE Delegated("setAuthentication")

DispInit ==
  /\ dPc = "idle"
  /\ dOp = "none"
  /\ dUrl = UrlOther
  /\ dCaps = NoCapabilities
  /\ dOutcome = [kind |-> "none", message |-> "", called |-> "none"]
  /\ dPlatform = "none"
  /\ dAuth = {}
  /\ dReceiver = "none"

\* The operation op is called with url on a dispatcher whose backends have
\* the methods caps, and does outcome.
Called(op, url, caps, outcome) ==
  /\ dPc = "idle"
  /\ dPc' = "done"
  /\ dOp' = op
  /\ dUrl' = url
  /\ dCaps' = caps
  /\ dOutcome' = outcome
  /\ dReceiver' = IF outcome.called = "none" THEN "none" ELSE getDownloaderForUrl(url)
  /\ UNCHANGED <<dPlatform, dAuth>>
  /\ UNCHANGED <<schedVars, callVars, batchVars, calVars, nameVars>>

DispatchGetInfo ==
  \E url \in DispatchUrls, caps \in CapabilitySets :
    Called("getInfo", url, caps, getInfo(url))

DispatchDownload ==
  \E url \in DispatchUrls, caps \in CapabilitySets :
    Called("download", url, caps, downloadRouted(url))

DispatchGetPlaylistInfo ==
  \E url \in DispatchUrls, caps \in CapabilitySets :
    Called("getPlaylistInfo", url, caps, getPlaylistInfo(url, caps))

DispatchDownloadPlaylist ==
  \E url \in DispatchUrls, caps \in CapabilitySets :
    Called("downloadPlaylist", url, caps, downloadPlaylist(url, caps))

DispatchGetChannelInfo ==
  \E url \in DispatchUrls, caps \in CapabilitySets :
    Called("getChannelInfo", url, caps, getChannelInfo(url, caps))

DispatchDownloadChannel ==
  \E url \in DispatchUrls, caps \in CapabilitySets :
    Called("downloadChannel", url, caps, downloadChannel(url, caps))

DispatchRecordLiveStream ==
  \E url \in DispatchUrls, caps \in CapabilitySets :
    Called("recordLiveStream", url, caps, recordLiveStream(url, caps))

\* setAuthentication(platform, auth) is called on a dispatcher whose backends
\* in auth have the method; it takes no url.
DispatchSetAuthentication ==
  \E platform \in Platforms, auth \in AuthCapabilitySets, caps \in CapabilitySets :
    LET outcome == setAuthentication(platform, auth)
    IN  /\ dPc = "idle"
        /\ dPc' = "done"
        /\ dOp' = "setAuthentication"
        /\ dPlatform' = platform
        /\ dAuth' = auth
        /\ dCaps' = caps
        /\ dOutcome' = outcome
        /\ dReceiver' = IF outcome.called = "none" THEN "none" ELSE MapGet(platform)
        /\ UNCHANGED dUrl
        /\ UNCHANGED <<schedVars, callVars, batchVars, calVars, nameVars>>

DispNext ==
  \/ DispatchGetInfo
  \/ DispatchDownload
  \/ DispatchGetPlaylistInfo
  \/ DispatchDownloadPlaylist
  \/ DispatchGetChannelInfo
  \/ DispatchDownloadChannel
  \/ DispatchRecordLiveStream
  \/ DispatchSetAuthentication

\* ------------------------------------------- successive next occurrences

\* Most reschedules of one schedule followed.
MaxRuns ==
  3

CalWeekDaySets ==
  {<< >>, <<"monday", "wednesday">>, <<"thursday">>, <<"monday", "saturday">>, <<"funday">>}

CalDaysOfMonth == {0, 1, 15, 30, 31}

\* Repeating schedules, by the fields scheduleNextRun reads.
CalSchedules ==
  { o \in [repeat : {"daily", "weekly", "monthly"}, days : CalWeekDaySets,
           dayOfMonth : CalDaysOfMonth] :
      /\ o.repeat # "weekly" => o.days = << >>
      /\ o.repeat # "monthly" => o.dayOfMonth = 0 }

\* Start dates: the first week of the year and, in every month, the 1st,
\* the 15th and the 28th to the last day.
CalStartDays ==
  (0..6) \cup {d \in 0..364 : getDate(d * TicksPerDay) \in {1, 15, 28, 29, 30, 31}}

\* How long after the nominal occurrence the run is over and the next one is
\* computed: at once, one day or three days later.
CalDelays == {0, TicksPerDay, 3 * TicksPerDay}

CalInit ==
  /\ kSchedule = [repeat |-> "undefined", days |-> << >>, dayOfMonth |-> 0]
  /\ kStart = 0
  /\ kPrev = 0
  /\ kNext = 0
  /\ kNow = 0
  /\ kRuns = 0

\* scheduleDownload: nextRun = new Date(schedule.date)
CalCreate ==
  /\ kSchedule.repeat = "undefined"
  /\ \E schedule \in CalSchedules, day \in CalStartDays, tod \in 0..(TicksPerDay - 1) :
       /\ kSchedule' = schedule
       /\ kStart' = day * TicksPerDay + tod
       /\ kNext' = day * TicksPerDay + tod
       /\ kPrev' = day * TicksPerDay + tod
       /\ kNow' = day * TicksPerDay + tod
  /\ UNCHANGED kRuns
  /\ UNCHANGED <<schedVars, callVars, batchVars, dispVars, nameVars>>

\* scheduleNextRun, without an end-date: nextRun = nextDate
CalReschedule ==
  /\ kSchedule.repeat # "undefined"
  /\ kRuns < MaxRuns
  /\ \E delay \in CalDelays :
       /\ kNow' = kNext + delay
       /\ kNext' = NextDate(kSchedule, kNext, kNext + delay)
  /\ kPrev' = kNext
  /\ kRuns' = kRuns + 1
  /\ UNCHANGED <<kSchedule, kStart>>
  /\ UNCHANGED <<schedVars, callVars, batchVars, dispVars, nameVars>>

CalNext ==
  \/ CalCreate
  \/ CalReschedule

\* ------------------------------------------------- a generateFilename call

\* Longest title tried, besides the worked example.
MaxTitleLen ==
  3

\* The characters titles are made of: a letter, two kinds of whitespace and
\* an invalid character.
TitleChars == {"a", " ", "\t", "?"}

ExampleTitle ==
  <<"M", "y", " ", "V", "i", "d", "e", "o", ":", " ", "P", "a", "r", "t", " ", "1", "?">>

RECURSIVE TitlesOfLen(_)
TitlesOfLen(n) ==
  IF n = 0 THEN {<< >>}
  ELSE {<<c>> \o t : c \in TitleChars, t \in TitlesOfLen(n - 1)}

NameTitles == UNION {TitlesOfLen(n) : n \in 0..MaxTitleLen} \cup {ExampleTitle}

\* The members of the Format enum.
NameFormats == {"MP4", "MP3", "WEBM"}

NameInit ==
  /\ nPc = "idle"
  /\ nTitle = << >>
  /\ nFormat = "MP4"
  /\ nSanitized = << >>
  /\ nFilename = ""

\* generateFilename(title, format) is called and returns.
GenerateFilename ==
  /\ nPc = "idle"
  /\ nPc' = "done"
  /\ \E title \in NameTitles, format \in NameFormats :
       /\ nTitle' = title
       /\ nFormat' = format
       /\ nSanitized' = sanitizeFilename(title)
       /\ nFilename' = generateFilename(title, format)
  /\ UNCHANGED <<schedVars, callVars, batchVars, dispVars, calVars>>

NameNext == GenerateFilename

\* ------------------------------------------------------- specifications

vars == <<schedVars, callVars, batchVars, dispVars, calVars, nameVars>>

Init == SchedInit /\ CallInit /\ BatchInit /\ DispInit /\ CalInit /\ NameInit

\* The scheduler.
Next == SchedNext

Spec == Init /\ [][Next]_vars

\* A direct call of download, of a backend or of the dispatcher.
SpecCall == Init /\ [][CallNext]_vars

\* A call of batchDownload.
SpecBatch == Init /\ [][BatchNext]_vars

\* A call of a dispatcher operation.
SpecDispatch == Init /\ [][DispNext]_vars

\* The next occurrences of one schedule.
SpecCalendar == Init /\ [][CalNext]_vars

\* A call of generateFilename.
SpecName == Init /\ [][NameNext]_vars

\* ================================================================ claims

\* The next occurrence of a repeating schedule lies after its end-date.
EndDateExceeded ==
  /\ options.repeat \in {"daily", "weekly", "monthly"}
  /\ options.endDate # << >>
  /\ NextDate(options, nextRun, now) > options.endDate[1]

\* C1: cancel() is irreversible: once cancel() has been called, no later step
\* (timer firing, resume) invokes download for the schedule.
C1_NoDownloadAfterCancel ==
  cancelled => ~lastStarted

\* C2: a backend's download(url, options) never rejects: however the call
\* settles, it settles with a returned DownloadResult.
C2_BackendDownloadNeverRejects ==
  cPc = "settled" => cResult.kind = "returned"

\* C3: with a progress callback that does not throw, batchDownload never
\* rejects, and when it returns the result holds exactly one entry per
\* supported URL, the i-th for the i-th supported URL, with success = false
\* for every URL whose download threw.
C3_ThrowingDownloadDoesNotAbortBatch ==
  onProgress # "throws" =>
    /\ bPc # "rejected"
    /\ bPc = "done" =>
         /\ Len(results) = Len(supportedUrls)
         /\ \A k \in 1..Len(results) : results[k].item = k
         /\ \A k \in thrown : k \in 1..Len(results) /\ results[k].success = FALSE

C3_Witness ==
  /\ bPc = "done"
  /\ onProgress # "throws"
  /\ thrown # {}
  /\ Len(results) >= 2
  /\ \E k \in 1..Len(results) : k \notin thrown /\ results[k].success

\* C4: a timer firing while the schedule is paused starts no download, calls
\* no callback, arms no timer and leaves nextRun alone; pause() leaves the
\* pending timers and the timer handle alone.
C4_PausedFireIsNoOp ==
  [][ /\ (isPaused /\ lastOp' = "fire") =>
           /\ ~lastStarted'
           /\ inflight' = inflight
           /\ lastCallback' = "none"
           /\ lastArmed' = << >>
           /\ timers' \subseteq timers
           /\ timerSeq' = timerSeq
           /\ nextRun' = nextRun
      /\ (lastOp' = "pause") =>
           /\ timers' = timers
           /\ timeoutId' = timeoutId ]_vars

C4_Witness ==
  /\ lastOp = "fire"
  /\ lastPaused
  /\ ~lastStarted
  /\ inflight = 0

\* C5: when the download of a run of a daily, weekly or monthly schedule
\* settles (a success result, a failure result or a throw) while the schedule
\* is not paused and the next occurrence is not after the end-date, nextRun
\* advances and a timer is armed for it.
C5_RepeatingAlwaysReschedules ==
  [][ (/\ lastOp' = "settle"
       /\ options.repeat \in {"daily", "weekly", "monthly"}
       /\ ~isPaused
       /\ ~EndDateExceeded) =>
        /\ nextRun' > nextRun
        /\ Len(lastArmed') = 1
        /\ \E t \in timers' \ timers : t.id = timeoutId' /\ t.due = Max(now, nextRun') ]_vars

C5_Witness ==
  /\ lastOp = "settle"
  /\ lastOutcome = "throw"
  /\ options.repeat \in {"daily", "weekly", "monthly"}
  /\ ~lastPaused
  /\ lastArmed # << >>

\* C6: when cancel() was called while a run's download was in flight, the
\* completion of that download arms no timer.
C6_CancelInFlightTakesEffect ==
  [][ (cancelledInFlight /\ lastOp' = "settle") => lastArmed' = << >> ]_vars

\* C7 as stated: unless the end-date has passed, nextRun is in the future
\* (nextRun >= now) and is the time of a pending timer.
C7_NextRunIsNextFutureTrigger ==
  (sState = "active" /\ ~EndDateExceeded) =>
    /\ nextRun >= now
    /\ \E t \in timers : t.due = nextRun

\* C7 as amended: nextRun is the time the most recently armed timer was armed
\* for.  Every step that arms a timer arms it for max(now, nextRun) under the
\* handle timeoutId, and nextRun changes only in a step that arms a timer for
\* its new value; otherwise (end-date passed, paused, one-shot) it is frozen.
C7_NextRunIsArmedTime ==
  [][ /\ (lastArmed' # << >>) =>
           \E t \in timers' \ timers : t.id = timeoutId' /\ t.due = Max(now', nextRun')
      /\ (nextRun' # nextRun) => lastArmed' # << >> ]_vars

C7_Witness ==
  /\ lastOp = "settle"
  /\ lastArmed # << >>
  /\ nextRun < now
  /\ \E t \in timers : t.id = timeoutId /\ t.due = now

\* C8: resume() of a paused schedule whose nextRun is still in the future arms
\* a timer with delay nextRun - now and starts no download.
C8_ResumeBeforeNextRunArmsRemainingDelay ==
  (lastOp = "resume" /\ lastPaused /\ nextRun > now) =>
    /\ lastArmed = <<nextRun - now>>
    /\ \E t \in timers : t.id = timeoutId /\ t.due = nextRun
    /\ ~lastStarted

C8_Witness ==
  /\ lastOp = "resume"
  /\ lastPaused
  /\ nextRun > now
  /\ lastArmed = <<nextRun - now>>

\* C9: resume() of a paused schedule whose nextRun has passed starts the
\* download inside the call and arms no timer.
C9_ResumeAfterNextRunRunsImmediately ==
  (lastOp = "resume" /\ lastPaused /\ nextRun < now) =>
    /\ lastStarted
    /\ inflight > 0
    /\ lastArmed = << >>

C9_Witness ==
  /\ lastOp = "resume"
  /\ lastPaused
  /\ nextRun < now
  /\ lastStarted

\* C10: scheduleDownload with rule 'once' and a date before the current time
\* throws: no control handle is returned, no timer is armed and download is
\* never invoked.
C10_PastOnceIsRejected ==
  (sState # "none" /\ options.repeat = "once" /\ options.date < StartTick) =>
    /\ sState = "rejected"
    /\ timers = {}
    /\ timerSeq = 1
    /\ inflight = 0
    /\ ~lastStarted
    /\ lastOp = "create"

C10_Witness ==
  /\ sState = "rejected"
  /\ options.repeat = "once"
  /\ options.date < StartTick

\* C11: when the download of a run of a one-shot schedule settles (a success
\* result, a failure result or a throw), no timer is armed and nextRun is
\* still the date the schedule was created with.
C11_OneShotHasNoReschedule ==
  (lastOp = "settle" /\ options.repeat = "once") =>
    /\ lastArmed = << >>
    /\ nextRun = options.date

C11_Witness ==
  /\ lastOp = "settle"
  /\ options.repeat = "once"
  /\ lastOutcome = "throw"
  /\ timers = {}

\* C12: with both callbacks given, a run whose download succeeds invokes the
\* completion callback, and a run whose download fails (a success = false
\* result or a throw) invokes the error callback.
C12_FailureInvokesErrorCallback ==
  (lastOp = "settle" /\ options.callbacks) =>
    /\ lastOutcome = "ok" => lastCallback = "onComplete"
    /\ lastOutcome \in {"fail", "throw"} => lastCallback = "onError"

\* The downloads that have started and have not settled.
InFlight ==
  Len(SelectSeq(events, LAMBDA e : e.type = "start"))
    - Len(SelectSeq(events, LAMBDA e : e.type = "end"))

\* C13: with a concurrency limit c >= 1, the downloads of one batchDownload
\* call that have started and not yet settled are never more than c.
C13_InFlightAtMostConcurrency ==
  concurrency >= 1 => InFlight <= concurrency

C13_Witness ==
  /\ concurrency = 2
  /\ Len(supportedUrls) = 3
  /\ InFlight = 2
  /\ Cardinality(pending) = 2

\* C14: with c >= 1, a download of a later chunk starts only after every
\* download of every earlier chunk has settled, whether it succeeded, returned
\* a failure or threw.
C14_ChunksRunOneAfterAnother ==
  concurrency >= 1 =>
    \A p \in 1..Len(events) :
      events[p].type = "start" =>
        \A b \in 1..Len(supportedUrls) :
          ((b - 1) \div concurrency < (events[p].item - 1) \div concurrency) =>
            \E q \in 1..(p - 1) : events[q].type = "end" /\ events[q].item = b

C14_Witness ==
  /\ concurrency = 2
  /\ Len(supportedUrls) = 3
  /\ 1 \in thrown
  /\ Len(results) = 2
  /\ ~results[2].success
  /\ \E p \in 1..Len(events) : events[p].type = "start" /\ events[p].item = 3

\* C15: with N >= 1 supported urls and a progress callback that does not
\* throw, the callback is invoked once per settled download, the k-th snapshot
\* carries completed = k and total = N, and when batchDownload has returned
\* the callback has been invoked N times and the last snapshot has
\* percentage 100.
C15_ProgressCountsEveryDownload ==
  onProgress = "ok" =>
    /\ Len(snapshots) = Len(SelectSeq(events, LAMBDA e : e.type = "end"))
    /\ Len(snapshots) <= Len(supportedUrls)
    /\ \A k \in 1..Len(snapshots) :
         /\ snapshots[k].completed = k
         /\ snapshots[k].total = Len(supportedUrls)
    /\ (bPc = "done" /\ Len(supportedUrls) >= 1) =>
         /\ Len(snapshots) = Len(supportedUrls)
         /\ snapshots[Len(supportedUrls)].percentage = 100

C15_Witness ==
  /\ bPc = "done"
  /\ onProgress = "ok"
  /\ concurrency = 2
  /\ Len(supportedUrls) = 3
  /\ thrown # {}
  /\ Len(snapshots) = 3

\* C16 as stated: every snapshot with completed in 1..total carries
\* percentage = floor(completed / total * 100).
C16_PercentageIsFloor ==
  \A k \in 1..Len(snapshots) :
    snapshots[k].completed \in 1..snapshots[k].total =>
      snapshots[k].percentage = (100 * snapshots[k].completed) \div snapshots[k].total

\* C16 amended: every snapshot with completed in 1..total carries the integer
\* nearest to completed / total * 100, a half rounding up:
\* percentage - 1/2 <= 100 * completed / total < percentage + 1/2.
C16_PercentageIsRounded ==
  \A k \in 1..Len(snapshots) :
    snapshots[k].completed \in 1..snapshots[k].total =>
      LET p == snapshots[k].percentage
          c == snapshots[k].completed
          t == snapshots[k].total
      IN  /\ (2 * p - 1) * t <= 200 * c
          /\ 200 * c < (2 * p + 1) * t

C16_Witness ==
  \E k \in 1..Len(snapshots) :
    /\ snapshots[k].completed = 2
    /\ snapshots[k].total = 3
    /\ snapshots[k].percentage = 67

\* C17: no url that is not supported is ever passed to download or gets a
\* result entry, and on an input without any supported url (the empty input
\* too) batchDownload returns an empty sequence, starts no download and
\* fires no progress callback.
C17_UnsupportedUrlsAreSkipped ==
  bPc # "idle" =>
    LET supported == {i \in 1..Len(bUrls) : isSupported(bUrls[i])}
    IN  /\ \A p \in 1..Len(events) : isSupported(events[p].url)
        /\ Len(results) <= Cardinality(supported)
        /\ supported = {} =>
             /\ bPc = "done"
             /\ results = << >>
             /\ events = << >>
             /\ snapshots = << >>
             /\ completed = 0

C17_Witness ==
  /\ bPc = "done"
  /\ Len(bUrls) = 2
  /\ \A i \in 1..Len(bUrls) : ~isSupported(bUrls[i])
  /\ results = << >>

\* C18: with c >= 1 the N supported urls are started in input order, in
\* ceil(N / c) consecutive chunks that all have c urls except the last, which
\* has N - c * (ceil(N / c) - 1); 7 urls with c = 3 make chunks of 3, 3, 1.
C18_ChunksPartitionInOrder ==
  concurrency >= 1 =>
    LET N == Len(supportedUrls)
        n == (N + concurrency - 1) \div concurrency
        started == SelectSeq(events, LAMBDA e : e.type = "start")
    IN  /\ Len(chunks) <= n
        /\ \A k \in 1..Len(chunks) :
             chunks[k] = IF k < n THEN concurrency ELSE N - concurrency * (n - 1)
        /\ \A p \in 1..Len(started) :
             started[p].item = p /\ started[p].url = supportedUrls[p]
        /\ (bPc = "done" /\ N >= 1) => (Len(chunks) = n /\ Len(started) = N)

C18_Witness ==
  /\ bPc = "done"
  /\ Len(supportedUrls) = 7
  /\ concurrency = 3
  /\ chunks = <<3, 3, 1>>

\* C19: every entry of the results array is the outcome of the supported url
\* at the same position, whatever order the downloads of a chunk settled in,
\* and a returned call with c >= 1 has one entry per supported url.
C19_ResultsInInputOrder ==
  /\ \A i \in 1..Len(results) :
       \E q \in 1..Len(events) :
         /\ events[q].type = "end"
         /\ events[q].item = i
         /\ events[q].url = supportedUrls[i]
         /\ events[q].entry = results[i]
  /\ (bPc = "done" /\ concurrency >= 1) => Len(results) = Len(supportedUrls)

C19_Witness ==
  /\ bPc = "done"
  /\ Len(results) = 3
  /\ results[1].success
  /\ ~results[2].success
  /\ \E q1, q2 \in 1..Len(events) :
       /\ q1 < q2
       /\ events[q1].type = "end" /\ events[q1].item = 2
       /\ events[q2].type = "end" /\ events[q2].item = 1

\* C20: every DownloadResult that download resolves with, called on the
\* YouTube or Instagram backend or on the dispatcher, and every entry the
\* batch runner makes of a download that threw, has a non-empty filePath when
\* success is true and a non-empty message when success is false.
C20_ResultMatchesSuccessFlag ==
  (/\ cPc = "settled"
   /\ ~(cTarget = "dispatcher" /\ getDownloaderForUrl(cUrl) \in {"tiktok", "twitter", "facebook"}))
  => LET r == IF cResult.kind = "rejected" THEN CatchEntry(cResult, 1) ELSE cResult
     IN  /\ r.success => r.filePath # ""
         /\ ~r.success => r.message # ""

C20_Witness ==
  /\ cPc = "settled"
  /\ cTarget = "dispatcher"
  /\ cResult.kind = "returned"
  /\ cResult.success
  /\ cOptions.outputPath = << <<".">> >>
  /\ cOptions.fileName = <<"">>
  /\ cResult.filePath = "."

\* C21: every dispatcher operation routed by url answers a url that matches
\* no platform with the 'Unsupported URL' outcome, and calls no backend.
C21_UnmatchedUrlIsUnsupportedUrl ==
  (dPc = "done" /\ getDownloaderForUrl(dUrl) = "null") =>
    /\ dOutcome.called = "none"
    /\ dOutcome.message = "Unsupported URL"

\* C22: when the backend resolved for the url lacks the optional method of
\* the operation, the dispatcher calls no backend method; downloadPlaylist and
\* downloadChannel return a failure result with the message
\* '<Capability> not supported for this URL' and do not throw, and
\* getPlaylistInfo and getChannelInfo throw an error with such a message.
C22_MissingCapabilityIsNotCalled ==
  (/\ dPc = "done"
   /\ dOp \in OptionalMethods
   /\ getDownloaderForUrl(dUrl) # "null"
   /\ dOp \notin dCaps[getDownloaderForUrl(dUrl)])
  => /\ dOutcome.called = "none"
     /\ dOp = "downloadPlaylist" =>
          /\ dOutcome.kind = "returned"
          /\ dOutcome.message = "Playlist download" \o " not supported for this URL"
     /\ dOp = "downloadChannel" =>
          /\ dOutcome.kind = "returned"
          /\ dOutcome.message = "Channel download" \o " not supported for this URL"
     /\ dOp = "getPlaylistInfo" =>
          /\ dOutcome.kind = "thrown"
          /\ dOutcome.message = "Playlist" \o " not supported for this URL"
     /\ dOp = "getChannelInfo" =>
          /\ dOutcome.kind = "thrown"
          /\ dOutcome.message = "Channel" \o " not supported for this URL"

C22_Witness ==
  /\ dPc = "done"
  /\ dOp = "downloadPlaylist"
  /\ getDownloaderForUrl(dUrl) = "youtube"
  /\ dOutcome.kind = "returned"
  /\ dOutcome.called = "none"

\* C23: isSupported(url) is true exactly when getDownloaderForUrl(url)
\* resolves a registered backend, so download never answers a url that
\* isSupported accepts with 'Unsupported URL'.
C23_SupportedIffBackendResolved ==
  dPc = "done" =>
    /\ isSupported(dUrl) <=> getDownloaderForUrl(dUrl) # "null"
    /\ (dOp = "download" /\ isSupported(dUrl)) =>
         /\ dOutcome.message # "Unsupported URL"
         /\ dOutcome.called = "download"

C23_Witness ==
  /\ dPc = "done"
  /\ dOp = "download"
  /\ dUrl = UrlFacebook
  /\ isSupported(dUrl)
  /\ dOutcome.called = "download"

\* C24: when the download of a run of a daily, weekly or monthly schedule
\* with an end-date settles while the schedule is not paused: if the next
\* occurrence computed lies after the end-date, no timer is armed and nextRun
\* keeps its value; otherwise nextRun becomes that occurrence and exactly one
\* timer is armed, for it.
C24_EndDateEndsSchedule ==
  [][ (/\ lastOp' = "settle"
       /\ options.repeat \in {"daily", "weekly", "monthly"}
       /\ ~isPaused
       /\ options.endDate # << >>) =>
        IF NextDate(options, nextRun, now) > options.endDate[1]
        THEN /\ nextRun' = nextRun
             /\ lastArmed' = << >>
             /\ timers' = timers
             /\ timeoutId' = timeoutId
        ELSE /\ nextRun' = NextDate(options, nextRun, now)
             /\ nextRun' <= options.endDate[1]
             /\ Cardinality(timers' \ timers) = 1
             /\ \A t \in timers' \ timers : t.id = timeoutId' /\ t.due = Max(now, nextRun') ]_vars

C24_Witness ==
  /\ lastOp = "settle"
  /\ options.repeat = "daily"
  /\ ~lastPaused
  /\ EndDateExceeded
  /\ nextRun > options.date
  /\ nextRun <= options.endDate[1]
  /\ lastArmed = << >>

\* C25: for a daily schedule every reschedule moves nextRun one calendar
\* day on at the same time of day, whatever the current time is, so after k
\* reschedules nextRun is the creation date plus k days.
C25_DailyAddsOneDay ==
  kSchedule.repeat = "daily" =>
    /\ kNext = kStart + kRuns * TicksPerDay
    /\ kRuns > 0 =>
         /\ DayOf(kNext) = DayOf(kPrev) + 1
         /\ TimeOfDay(kNext) = TimeOfDay(kPrev)

C25_Witness ==
  /\ kSchedule.repeat = "daily"
  /\ kRuns = 3
  /\ kNow > kPrev + TicksPerDay
  /\ getDate(kNext) = 2
  /\ getMonth(kNext) = 0
  /\ getFullYear(kNext) = 1

\* The weekday indices a weekly schedule names.
ScheduledDayIndices(schedule) ==
  {indexOf(schedule.days[i]) : i \in 1..Len(schedule.days)}

\* C26: for a weekly schedule whose days are a non-empty list of weekday
\* names, the days added at a reschedule are the smallest d in 1..7 such that
\* the weekday d days after the current day is in the list: monday and
\* wednesday give 1 on a Tuesday and 4 on a Thursday, and a list of today's
\* weekday alone gives 7.
C26_WeeklyAddsDaysToNextListedWeekday ==
  (/\ kSchedule.repeat = "weekly"
   /\ Len(kSchedule.days) > 0
   /\ -1 \notin ScheduledDayIndices(kSchedule)
   /\ kRuns > 0)
  => LET d == DayOf(kNext) - DayOf(kPrev)
         today == getDay(kNow)
         listed == ScheduledDayIndices(kSchedule)
     IN  /\ d \in 1..7
         /\ ((today + d) % 7) \in listed
         /\ \A e \in 1..(d - 1) : ((today + e) % 7) \notin listed
         /\ (kSchedule.days = <<"monday", "wednesday">> /\ today = 2) => d = 1
         /\ (kSchedule.days = <<"monday", "wednesday">> /\ today = 4) => d = 4
         /\ listed = {today} => d = 7

C26_Witness ==
  /\ kSchedule.repeat = "weekly"
  /\ kSchedule.days = <<"thursday">>
  /\ kRuns > 0
  /\ getDay(kNow) = 4
  /\ DayOf(kNext) - DayOf(kPrev) = 7

\* C27: for a weekly schedule with a list of weekday names, every next
\* occurrence that a reschedule has stored in nextRun falls on a listed weekday.
C27_NextRunOnListedWeekday ==
  (/\ sState = "active"
   /\ options.repeat = "weekly"
   /\ Len(options.days) > 0
   /\ -1 \notin ScheduledDayIndices(options)
   /\ nextRun # options.date)
  => getDay(nextRun) \in ScheduledDayIndices(options)

\* C28: for a weekly schedule with a non-empty list of days, names that are
\* no weekday included, the next occurrence is between 1 and 7 days after the
\* previous one.
C28_WeeklyScanWithinSevenDays ==
  (kSchedule.repeat = "weekly" /\ Len(kSchedule.days) > 0 /\ kRuns > 0) =>
    (DayOf(kNext) - DayOf(kPrev)) \in 1..7

\* C29: for a monthly schedule with a day-of-month d in 1..31, the next
\* occurrence is day d of the month that follows the month of the previous
\* occurrence, whenever that month has at least d days.
C29_MonthlyDayOfFollowingMonth ==
  (/\ kSchedule.repeat = "monthly"
   /\ kSchedule.dayOfMonth \in 1..31
   /\ kRuns > 0)
  => LET following == (getMonth(kPrev) + 1) % 12
         daysInMonth == DaysBeforeMonth[following + 2] - DaysBeforeMonth[following + 1]
     IN  daysInMonth >= kSchedule.dayOfMonth =>
           /\ getMonth(kNext) = following
           /\ getDate(kNext) = kSchedule.dayOfMonth
           /\ getFullYear(kNext) = getFullYear(kPrev) + (IF following = 0 THEN 1 ELSE 0)

\* C30: for a monthly schedule without a day-of-month, every next occurrence
\* falls in the month that follows the month of the previous one and on the
\* day-of-month of the start date.
C30_MonthlyKeepsDayAndSkipsNoMonth ==
  (/\ kSchedule.repeat = "monthly"
   /\ kSchedule.dayOfMonth = 0
   /\ kRuns > 0)
  => /\ getMonth(kNext) = (getMonth(kPrev) + 1) % 12
     /\ getDate(kNext) = getDate(kStart)

\* C31: creating a schedule arms exactly one timer, with delay
\* max(0, date - now), due at max(now, date); a repeating schedule with a past
\* date is accepted; and no timer is pending for, and no run starts at, a time
\* before the schedule's date.
C31_CreationArmsOneTimerForTarget ==
  /\ (lastOp = "create" /\ options.repeat # "once") => sState = "active"
  /\ (lastOp = "create" /\ sState = "active") =>
       /\ lastArmed = <<Max(0, options.date - now)>>
       /\ timers = {[id |-> timeoutId, due |-> Max(now, options.date)]}
  /\ sState = "active" =>
       /\ \A t \in timers : t.due >= options.date
       /\ (lastOp = "fire" \/ lastStarted) => now >= options.date

\* The first timer of a repeating schedule created with a past date has fired
\* at the time of creation and started a run.
C31_Witness ==
  /\ lastOp = "fire"
  /\ lastStarted
  /\ options.repeat = "daily"
  /\ options.date < StartTick
  /\ now = StartTick
  /\ timerSeq = 2

\* C32: setAuthentication(platform, auth) calls setAuthentication of the
\* backend registered under the platform tag, whatever url the dispatcher's
\* state holds; when no backend is registered under the tag or that backend has
\* no setAuthentication method, it throws 'Authentication not supported for
\* <platform>' and calls no method of any backend.
C32_AuthenticationByPlatformTag ==
  (dPc = "done" /\ dOp = "setAuthentication") =>
    IF dPlatform \in downloaders /\ dPlatform \in dAuth
    THEN /\ dOutcome = Delegated("setAuthentication")
         /\ dReceiver = dPlatform
    ELSE /\ dOutcome.kind = "thrown"
         /\ dOutcome.message = "Authentication not supported for " \o dPlatform
         /\ dOutcome.called = "none"
         /\ dReceiver = "none"

\* setAuthentication for a registered backend without the method (Instagram)
\* threw, on a dispatcher where another backend has the method.
C32_Witness ==
  /\ dPc = "done"
  /\ dOp = "setAuthentication"
  /\ dPlatform = "instagram"
  /\ dAuth = {"tiktok"}
  /\ dOutcome.kind = "thrown"
  /\ dOutcome.message = "Authentication not supported for instagram"
  /\ dReceiver = "none"

\* C33: the name generateFilename returns is the sanitized title, '.' and the
\* lower-cased format.  The sanitized title has '-' for every invalid
\* character and one '_' for every run of whitespace and keeps every other
\* character: it has no invalid character and no whitespace, it is as long as
\* the title's non-whitespace characters plus its runs of whitespace, and
\* sanitizing it again gives the same name.  The title 'My Video: Part 1?' with
\* format MP4 gives 'My_Video-_Part_1-.mp4'.
C33_FilenameIsSanitizedTitleDotFormat ==
  nPc = "done" =>
    LET runs == {k \in 1..Len(nTitle) :
                   nTitle[k] \in Whitespace /\ (k = 1 \/ nTitle[k - 1] \notin Whitespace)}
        others == {k \in 1..Len(nTitle) : nTitle[k] \notin Whitespace}
        extension == CASE nFormat = "MP4" -> "mp4" [] nFormat = "MP3" -> "mp3"
                       [] nFormat = "WEBM" -> "webm"
    IN  /\ nFilename = Concat(nSanitized) \o "." \o extension
        /\ \A k \in 1..Len(nSanitized) : nSanitized[k] \notin (InvalidChars \cup Whitespace)
        /\ Len(nSanitized) = Cardinality(others) + Cardinality(runs)
        /\ (runs = {}) =>
             \A k \in 1..Len(nTitle) :
               nSanitized[k] = IF nTitle[k] \in InvalidChars THEN "-" ELSE nTitle[k]
        /\ sanitizeFilename(nSanitized) = nSanitized
        /\ (nTitle = ExampleTitle /\ nFormat = "MP4") => nFilename = "My_Video-_Part_1-.mp4"

\* A title with a run of two whitespace characters between an invalid
\* character and a letter has been turned into a name.
C33_Witness ==
  /\ nPc = "done"
  /\ nTitle = <<"?", " ", "\t">>
  /\ nFormat = "WEBM"
  /\ nFilename = "-_.webm"

\* C34: a schedule has at most one pending timer at any time.
C34_AtMostOnePendingTimer ==
  Cardinality(timers) <= 1

\* C35: a one-shot schedule invokes download at most once: a step of a
\* one-shot schedule invokes download only if no earlier step has.
C35_OneShotDownloadsAtMostOnce ==
  [][ (sState' = "active" /\ options'.repeat = "once" /\ lastStarted') => lastRunFor = << >> ]_vars

\* C36: a schedule never has more than one download in flight.
C36_AtMostOneDownloadInFlight ==
  inflight <= 1

\* C38: a repeating schedule never executes the same nominal occurrence
\* twice: when a step invokes download, nextRun is later than it was at the
\* previous invocation.
C38_NextRunAdvancesBetweenRuns ==
  [][ (/\ sState' = "active"
       /\ Repeating(options')
       /\ lastStarted'
       /\ lastRunFor # << >>)
      => nextRun' > lastRunFor[1] ]_vars

\* C39: with an end-date configured, download is never invoked for an
\* occurrence later than the end-date, and the step that follows the settling
\* of a run after which the end-date left no timer armed invokes no download.
C39_NoDownloadAfterEndDate ==
  [][ /\ (sState' = "active" /\ options'.endDate # << >> /\ lastStarted')
         => nextRun' <= options'.endDate[1]
      /\ (/\ lastOp = "settle"
          /\ ~lastPaused
          /\ lastArmed = << >>
          /\ EndDateExceeded)
         => ~lastStarted' ]_vars

\* C37: batchDownload terminates for every concurrency: every pass of its
\* loop, entered when all downloads of the chunk have settled, moves the loop
\* index forward, so that the loop ends after at most one pass per supported
\* URL; and when batchDownload has returned, results holds one entry per
\* supported URL.
C37_BatchLoopAdvancesAndReturnsAll ==
  [][ /\ (bPc = "running" /\ pending = {}) => bI' > bI
      /\ bPc' = "done" => Len(results') = Len(supportedUrls') ]_vars

\* C40: in batchDownload completed is incremented once per settled download
\* and never exceeds total, and while no download has thrown batchDownload
\* does not reject, whatever the progress callback does; when it has returned,
\* results holds one entry per supported URL.
C40_CompletedCountsEachUrlOnce ==
  /\ completed = Cardinality({k \in 1..Len(events) : events[k].type = "end"})
  /\ completed <= Len(supportedUrls)
  /\ thrown = {} => bPc # "rejected"
  /\ bPc = "done" => Len(results) = Len(supportedUrls)

=============================================================================
